---------------------------- MODULE Spec2Model ----------------------------
(***************************************************************************)
(* Retrieval evaluation core of the recipe search project.                 *)
(*                                                                         *)
(*   search_recipe.py   load_qrels, compute_precision_at_k,                *)
(*                      compute_recall_at_k, compute_map, search_tfidf,    *)
(*                      search_bm25, compare_retrieval_algorithms, main    *)
(*   main.py / create_qrels.py   the writers of the qrels text format      *)
(*   main.py            run_full_pipeline, run_step, main                  *)
(*                                                                         *)
(* Metric values are Python floats in the source.  They are modelled as    *)
(* exact rationals <<numerator, denominator>> in lowest terms, so equality *)
(* and order of metric values are those of the real numbers the floats     *)
(* approximate.  A string is an opaque value where the code only compares  *)
(* it (doc ids, messages) and a sequence of characters where the code      *)
(* formats or parses it (query ids, the qrels file).                       *)
(***************************************************************************)
EXTENDS Integers, Sequences, FiniteSets, TLC

VARIABLES
    qrels,             \* queryId -> (docId -> relevance grade)
    results,           \* queryId -> ranked hit list (docIds, best first)
    k,                 \* cutoff rank
    rel_threshold,     \* relevance threshold of precision and recall
    pc,                \* position of the running program
    precision_scores,  \* compute_precision_at_k: the list of per-query scores
    precision_at_k,    \* compute_precision_at_k: the returned value
    recall_scores,     \* compute_recall_at_k: the list of per-query scores
    recall_at_k,       \* compute_recall_at_k: the returned value
    ap_scores,         \* compute_map: the list of per-query average precisions
    MAP,               \* compute_map: the returned value
    producer,          \* "writer": the qrels file is written from orig; "other"
    orig,              \* the qrels map a writer puts into the qrels file
    written,           \* the judgments of orig already in the file
    file,              \* the qrels file: a list of lines, each a list of characters
    pos,               \* load_qrels: the number of lines read
    queries,           \* the loaded query list
    query_id_start,    \* the id offset of the first query
    top_k,             \* the number of hits asked of every search
    engine_params,     \* the searcher's scoring parameters <<k1 * 10, b * 100>>
    idx,               \* search_tfidf / search_bm25: the queries already searched
    calls,             \* the search calls issued to the engine, in order
    passes,            \* the scoring passes that have returned their results map
    tfidf_results,     \* compare_retrieval_algorithms: the TF-IDF results map
    bm25_results,      \* compare_retrieval_algorithms: the BM25 results map
    tfidf_metrics,     \* compare_retrieval_algorithms: <<>> or <<the TF-IDF metrics>>
    bm25_metrics,      \* compare_retrieval_algorithms: <<>> or <<the BM25 metrics>>
    comparison,        \* main: <<>> or <<the value compare_retrieval_algorithms returned>>
    report,            \* <<>> or <<the content of retrieval_comparison_results.json>>
    failure,           \* an engine call has raised an exception
    args,              \* main.py: the parsed command line
    executed,          \* main.py: the steps called so far, each with what it returned
    output,            \* main.py: the messages of the pipeline printed so far
    index_exists,      \* the index directory exists
    qrels_exists,      \* the qrels file exists
    query_file,        \* the queries file: a list of characters
    gen_queries,       \* the qrels generators: the query list they read
    gen_ids,           \* the qrels generators: the id written for each query
    eval_ids           \* the evaluation: the id under which each query is searched

metricVars == <<results, k, rel_threshold, precision_scores, precision_at_k,
                recall_scores, recall_at_k, ap_scores, MAP>>
fileVars == <<producer, orig, written, file, pos>>
runVars == <<queries, query_id_start, top_k, engine_params, idx, calls, passes,
             tfidf_results, bm25_results, tfidf_metrics, bm25_metrics,
             comparison, report, failure>>
pipeVars == <<args, executed, output, index_exists, qrels_exists>>
genVars == <<query_file, gen_queries, gen_ids, eval_ids>>
vars == <<qrels, pc, metricVars, fileVars, runVars, pipeVars, genVars>>

-----------------------------------------------------------------------------
(* Bounds of the model *)

MaxK == 3
MaxGrade == 2
MaxJudgments == 2
MaxTotalHits == 3
MaxLines == 2
MaxQueries == 2
MaxOffset == 2
MaxTopK == 2
MaxStepArg == 8
MaxFileLen == 5

Docs == {"d1", "d2", "d3"}
JudgedDocs == {"d1", "d2"}      \* d3 has no judgment for any query
Thresholds == {1, 2}

None == "none"

-----------------------------------------------------------------------------
(* Exact rationals *)

Abs(x) == IF x < 0 THEN -x ELSE x

RECURSIVE GCD(_, _)
GCD(a, b) == IF b = 0 THEN a ELSE GCD(b, a % b)

\* n / d in lowest terms, d > 0
Rat(n, d) ==
    LET g == GCD(Abs(n), d)
    IN  <<n \div g, d \div g>>

RAdd(x, y) == Rat(x[1] * y[2] + y[1] * x[2], x[2] * y[2])
RDivInt(x, n) == Rat(x[1], x[2] * n)
RLess(x, y) == x[1] * y[2] < y[1] * x[2]
RLeq(x, y) == x[1] * y[2] <= y[1] * x[2]
Zero == <<0, 1>>
One == <<1, 1>>

RECURSIVE RSum(_)
RSum(s) == IF s = <<>> THEN Zero ELSE RAdd(Head(s), RSum(Tail(s)))

RECURSIVE Sum(_)
Sum(s) == IF s = <<>> THEN 0 ELSE Head(s) + Sum(Tail(s))

-----------------------------------------------------------------------------
(* Strings of the qrels file.  Python's int() also accepts digits separated *)
(* by single underscores and non-ASCII digits; the alphabet has neither.    *)

Whitespace == {" ", "\t", "\n"}
DigitChars == <<"0", "1", "2", "3", "4", "5", "6", "7", "8", "9">>
IsDigit(c) == \E i \in 1..10 : DigitChars[i] = c
DigitValue(c) == (CHOOSE i \in 1..10 : DigitChars[i] = c) - 1

\* str(n) of an int
RECURSIVE Digits(_)
Digits(n) ==
    IF n < 10 THEN <<DigitChars[n + 1]>>
    ELSE Digits(n \div 10) \o <<DigitChars[(n % 10) + 1]>>

IntToStr(n) == IF n < 0 THEN <<"-">> \o Digits(-n) ELSE Digits(n)

\* s.strip()
RECURSIVE LStrip(_)
LStrip(s) == IF s # <<>> /\ Head(s) \in Whitespace THEN LStrip(Tail(s)) ELSE s

RECURSIVE RStrip(_)
RStrip(s) ==
    IF s # <<>> /\ s[Len(s)] \in Whitespace
    THEN RStrip(SubSeq(s, 1, Len(s) - 1)) ELSE s

Strip(s) == RStrip(LStrip(s))

\* s.split(): the maximal runs of characters that are not whitespace
\* done: the tokens completed, cur: the token being read
RECURSIVE SplitLoop(_, _, _)
SplitLoop(s, done, cur) ==
    IF s = <<>> THEN (IF cur = <<>> THEN done ELSE Append(done, cur))
    ELSE IF Head(s) \in Whitespace
         THEN SplitLoop(Tail(s), IF cur = <<>> THEN done ELSE Append(done, cur), <<>>)
         ELSE SplitLoop(Tail(s), done, Append(cur, Head(s)))

Split(s) == SplitLoop(s, <<>>, <<>>)

RECURSIVE DigitsValue(_, _)
DigitsValue(s, acc) ==
    IF s = <<>> THEN acc ELSE DigitsValue(Tail(s), 10 * acc + DigitValue(Head(s)))

\* int(tok) of a token without whitespace: an optional sign and decimal
\* digits; anything else raises ValueError
IntBody(tok) == IF tok # <<>> /\ Head(tok) \in {"+", "-"} THEN Tail(tok) ELSE tok
IntParses(tok) ==
    /\ IntBody(tok) # <<>>
    /\ \A i \in 1..Len(IntBody(tok)) : IsDigit(IntBody(tok)[i])
IntValue(tok) ==
    IF Head(tok) = "-" THEN 0 - DigitsValue(IntBody(tok), 0)
    ELSE DigitsValue(IntBody(tok), 0)

\* qid = str(i + query_id_start): the query ids are decimal numerals, and the
\* dicts of the program keep them in insertion order, which is numeric order
MaxQid == MaxOffset + MaxQueries - 1
QidOrder == [i \in 1..(IF MaxQid < 2 THEN 2 ELSE MaxQid) |-> IntToStr(i)]
QIDs == {QidOrder[1], QidOrder[2]}

-----------------------------------------------------------------------------
(* Python built-ins used by the metrics *)

\* d.get(key, default)
Get(d, key, default) == IF key \in DOMAIN d THEN d[key] ELSE default

\* mutant: the cutoff one rank late
Slice_plus(s, n) == SubSeq(s, 1, IF n + 1 < Len(s) THEN n + 1 ELSE Len(s))

\* mutant: the whole list, the cutoff forgotten
Slice_all(s, n) == s

\* s[:n] for n >= 0
Slice(s, n) == SubSeq(s, 1, IF n < Len(s) THEN n ELSE Len(s))

\* results.items(): the keys in insertion order.  The search passes insert
\* the query ids in increasing order.
Items(res) == SelectSeq(QidOrder, LAMBDA q : q \in DOMAIN res)

\* np.mean(scores) if scores else 0.0
MeanOrZero(scores) ==
    IF scores # <<>> THEN RDivInt(RSum(scores), Len(scores)) ELSE Zero

-----------------------------------------------------------------------------
(* compute_precision_at_k *)

\* 1 if qrels[qid].get(docid, 0) >= rel_threshold else 0
PrecisionRelevance(judged, docid, thr) ==
    IF Get(judged, docid, 0) >= thr THEN 1 ELSE 0

\* mutant: divides by the number of hits returned
PrecisionAppend_len(scores, relevances, kk) ==
    IF relevances # <<>>
    THEN Append(scores, Rat(Sum(relevances), Len(relevances)))
    ELSE scores

\* if relevances: precision_scores.append(sum(relevances) / k)
PrecisionAppend(scores, relevances, kk) ==
    IF relevances # <<>> THEN Append(scores, Rat(Sum(relevances), kk)) ELSE scores

\* the relevances and the append of one query that qrels knows
PrecisionScore(scores, qid, res, qr, kk, thr) ==
    LET topk == Slice(res[qid], kk)
        relevances == [i \in 1..Len(topk) |->
                          PrecisionRelevance(qr[qid], topk[i], thr)]
    IN  PrecisionAppend(scores, relevances, kk)

\* mutant: a query that qrels does not know is scored 0
PrecisionStep_zero(scores, qid, res, qr, kk, thr) ==
    IF qid \notin DOMAIN qr THEN Append(scores, Zero)
    ELSE PrecisionScore(scores, qid, res, qr, kk, thr)

\* one iteration of the loop over results.items()
PrecisionStep(scores, qid, res, qr, kk, thr) ==
    IF qid \notin DOMAIN qr THEN scores
    ELSE PrecisionScore(scores, qid, res, qr, kk, thr)

RECURSIVE PrecisionLoop(_, _, _, _, _, _)
PrecisionLoop(items, res, qr, kk, thr, scores) ==
    IF items = <<>> THEN scores
    ELSE PrecisionLoop(Tail(items), res, qr, kk, thr,
                       PrecisionStep(scores, Head(items), res, qr, kk, thr))

\* precision_scores when the loop ends
PrecisionScores(res, qr, kk, thr) == PrecisionLoop(Items(res), res, qr, kk, thr, <<>>)

compute_precision_at_k(res, qr, kk, thr) == MeanOrZero(PrecisionScores(res, qr, kk, thr))

-----------------------------------------------------------------------------
(* compute_recall_at_k *)

\* mutant: > in place of >=
TotalRelevant_gt(judged, thr) ==
    Cardinality({d \in DOMAIN judged : judged[d] > thr})

\* sum(1 for rel in qrels[qid].values() if rel >= rel_threshold)
TotalRelevant(judged, thr) ==
    Cardinality({d \in DOMAIN judged : judged[d] >= thr})

\* mutant: every hit of the top k counted as relevant
RetrievedRelevant_all(topk, judged, thr) == Len(topk)

\* sum(1 for docid, _ in topk if qrels[qid].get(docid, 0) >= rel_threshold)
RetrievedRelevant(topk, judged, thr) ==
    Sum([i \in 1..Len(topk) |-> IF Get(judged, topk[i], 0) >= thr THEN 1 ELSE 0])

\* one iteration of the loop over results.items()
RecallStep(scores, qid, res, qr, kk, thr) ==
    IF qid \notin DOMAIN qr THEN scores
    ELSE LET total_relevant == TotalRelevant(qr[qid], thr)
         IN  IF total_relevant = 0 THEN scores
             ELSE LET topk == Slice(res[qid], kk)
                      retrieved_relevant == RetrievedRelevant(topk, qr[qid], thr)
                  IN  Append(scores, Rat(retrieved_relevant, total_relevant))

RECURSIVE RecallLoop(_, _, _, _, _, _)
RecallLoop(items, res, qr, kk, thr, scores) ==
    IF items = <<>> THEN scores
    ELSE RecallLoop(Tail(items), res, qr, kk, thr,
                    RecallStep(scores, Head(items), res, qr, kk, thr))

\* recall_scores when the loop ends
RecallScores(res, qr, kk, thr) == RecallLoop(Items(res), res, qr, kk, thr, <<>>)

compute_recall_at_k(res, qr, kk, thr) == MeanOrZero(RecallScores(res, qr, kk, thr))

-----------------------------------------------------------------------------
(* compute_map *)

\* mutant: >= in place of >
MapRelevant_geq(rel) == rel >= 0

\* if rel > 0
MapRelevant(rel) == rel > 0

\* for i, rel in enumerate(relevances, 1): ...
\* the pair <<num_relevant, sum_precisions>> after the ranks i..len(relevances)
RECURSIVE RankLoop(_, _, _, _)
RankLoop(relevances, i, num_relevant, sum_precisions) ==
    IF i > Len(relevances) THEN <<num_relevant, sum_precisions>>
    ELSE IF MapRelevant(relevances[i])
         THEN RankLoop(relevances, i + 1, num_relevant + 1,
                       RAdd(sum_precisions, Rat(num_relevant + 1, i)))
         ELSE RankLoop(relevances, i + 1, num_relevant, sum_precisions)

\* mutant: a query without a relevant hit is scored 0
MapAppend_zero(scores, acc) ==
    IF acc[1] > 0 THEN Append(scores, RDivInt(acc[2], acc[1]))
    ELSE Append(scores, Zero)

\* if num_relevant > 0: ap_scores.append(sum_precisions / num_relevant)
MapAppend(scores, acc) ==
    IF acc[1] > 0 THEN Append(scores, RDivInt(acc[2], acc[1])) ELSE scores

\* one iteration of the loop over results.items()
MapStep(scores, qid, res, qr, kk) ==
    IF qid \notin DOMAIN qr THEN scores
    ELSE LET topk == Slice(res[qid], kk)
             relevances == [i \in 1..Len(topk) |-> Get(qr[qid], topk[i], 0)]
         IN  MapAppend(scores, RankLoop(relevances, 1, 0, Zero))

RECURSIVE MapLoop(_, _, _, _, _)
MapLoop(items, res, qr, kk, scores) ==
    IF items = <<>> THEN scores
    ELSE MapLoop(Tail(items), res, qr, kk,
                 MapStep(scores, Head(items), res, qr, kk))

\* ap_scores when the loop ends
ApScores(res, qr, kk) == MapLoop(Items(res), res, qr, kk, <<>>)

compute_map(res, qr, kk) == MeanOrZero(ApScores(res, qr, kk))

-----------------------------------------------------------------------------
(* The writers of the qrels file *)

\* f.write(f"{i} {hit.docid} {rel}\n")
FormatLine(qid, docid, rel) ==
    qid \o <<" ">> \o docid \o <<" ">> \o IntToStr(rel) \o <<"\n">>

\* the judgments of a qrels map
Judgments(m) == UNION {{<<q, d>> : d \in DOMAIN m[q]} : q \in DOMAIN m}

-----------------------------------------------------------------------------
(* load_qrels *)

EmptyDict == [x \in {} |-> 0]

\* d[key] = value
SetItem(d, key, value) ==
    [x \in DOMAIN d \cup {key} |-> IF x = key THEN value ELSE d[x]]

\* parts = line.strip().split()
Parts(line) == Split(Strip(line))

\* mutant: the entry of the query is made anew for every line
StoreJudgment_reset(qr, qid, docid, rel) ==
    SetItem(qr, qid, SetItem(EmptyDict, docid, rel))

\* if qid not in qrels: qrels[qid] = {}
\* qrels[qid][docid] = int(rel)
StoreJudgment(qr, qid, docid, rel) ==
    LET entry == IF qid \notin DOMAIN qr THEN EmptyDict ELSE qr[qid]
    IN  SetItem(qr, qid, SetItem(entry, docid, rel))

-----------------------------------------------------------------------------
(* The comparison runner and the pipeline are not running *)

RunnerIdle ==
    /\ queries = <<>>
    /\ query_id_start = None
    /\ top_k = None
    /\ engine_params = None
    /\ idx = 0
    /\ calls = <<>>
    /\ passes = {}
    /\ tfidf_results = None
    /\ bm25_results = None
    /\ tfidf_metrics = <<>>
    /\ bm25_metrics = <<>>
    /\ comparison = <<>>
    /\ report = <<>>
    /\ failure = FALSE

PipelineIdle ==
    /\ args = None
    /\ executed = <<>>
    /\ output = <<>>
    /\ index_exists = FALSE
    /\ qrels_exists = FALSE

GeneratorIdle ==
    /\ query_file = <<>>
    /\ gen_queries = <<>>
    /\ gen_ids = <<>>
    /\ eval_ids = <<>>

-----------------------------------------------------------------------------
(* Inputs of the metrics *)

\* no docId twice in a hit list: the engine returns each document once
NoDuplicates(s) == \A i, j \in 1..Len(s) : s[i] = s[j] => i = j

HitLists == {s \in UNION {[1..n -> Docs] : n \in 0..MaxTotalHits} : NoDuplicates(s)}

TotalHits(res) == Sum([i \in 1..Len(Items(res)) |-> Len(res[Items(res)[i]])])

ResultsMaps ==
    {res \in UNION {[Q -> HitLists] : Q \in SUBSET QIDs} : TotalHits(res) <= MaxTotalHits}

JudgmentSets ==
    {J \in SUBSET (QIDs \X JudgedDocs) : Cardinality(J) <= MaxJudgments}

\* the map load_qrels builds from the judgments J with grades g: a query id is
\* a key only when it has a judgment
MkQrels(J, g) ==
    [q \in {j[1] : j \in J} |->
        [d \in {j[2] : j \in {x \in J : x[1] = q}} |-> g[<<q, d>>]]]

QrelsMaps == UNION {{MkQrels(J, g) : g \in [J -> 0..MaxGrade]} : J \in JudgmentSets}

-----------------------------------------------------------------------------
(* The evaluation of one results map: the metrics of one mode *)

\* one query with its three documents judged 2, 1 and 0, and any ranking of
\* the documents returned for it
ExampleQrels == IntToStr(1) :> (("d1" :> 2) @@ ("d2" :> 1) @@ ("d3" :> 0))
ExampleResults == {IntToStr(1) :> hits : hits \in HitLists}

MetricsInit ==
    /\ \/ /\ qrels \in QrelsMaps
          /\ results \in ResultsMaps
       \/ /\ qrels = ExampleQrels
          /\ results \in ExampleResults
    /\ k \in 1..MaxK
    /\ rel_threshold \in Thresholds
    /\ pc = "start"
    /\ precision_scores = None
    /\ precision_at_k = None
    /\ recall_scores = None
    /\ recall_at_k = None
    /\ ap_scores = None
    /\ MAP = None
    /\ producer = None
    /\ orig = None
    /\ written = {}
    /\ file = <<>>
    /\ pos = 0
    /\ RunnerIdle
    /\ PipelineIdle
    /\ GeneratorIdle

\* tfidf_metrics = {'precision@k': ..., 'recall@k': ..., 'MAP': ...}
ComputeMetrics ==
    /\ pc = "start"
    /\ precision_scores' = PrecisionScores(results, qrels, k, rel_threshold)
    /\ precision_at_k' = MeanOrZero(precision_scores')
    /\ recall_scores' = RecallScores(results, qrels, k, rel_threshold)
    /\ recall_at_k' = MeanOrZero(recall_scores')
    /\ ap_scores' = ApScores(results, qrels, k)
    /\ MAP' = MeanOrZero(ap_scores')
    /\ pc' = "evaluated"
    /\ UNCHANGED <<qrels, results, k, rel_threshold, fileVars, runVars, pipeVars, genVars>>

MetricsNext == ComputeMetrics

MetricsSpec == MetricsInit /\ [][MetricsNext]_vars

-----------------------------------------------------------------------------
(* Inputs of the qrels file *)

\* ids as the writers format them: the query number and str(i) of a document
FileQids == {<<"1">>, <<"2">>}
FileDocids == {<<"0">>, <<"1", "0">>}

FileJudgmentSets ==
    {J \in SUBSET (FileQids \X FileDocids) : Cardinality(J) <= MaxJudgments}

\* the maps a writer is given
OrigMaps ==
    UNION {{MkQrels(J, g) : g \in [J -> 0..MaxGrade]} : J \in FileJudgmentSets}

\* the lines of any other file: tokens separated by one blank, and three
\* lines with a fourth token or with more whitespace
Tokens == {<<"1">>, <<"-", "1">>, <<"x">>}
TokenCounts == 0..3

RECURSIVE Join(_)
Join(ts) ==
    IF ts = <<>> THEN <<>>
    ELSE IF Len(ts) = 1 THEN Head(ts)
    ELSE Head(ts) \o <<" ">> \o Join(Tail(ts))

Lines ==
    {Join(ts) \o <<"\n">> : ts \in UNION {[1..n -> Tokens] : n \in TokenCounts}}
    \cup {<<"1", " ", "1", " ", "1", " ", "1", "\n">>,
          <<"1", " ", "1", " ", "1", " ", "x", "\n">>,
          <<" ", "x", " ", " ", "1", "\t", "-", "1", " ", "\n">>}

Files == UNION {[1..n -> Lines] : n \in 0..MaxLines}

-----------------------------------------------------------------------------
(* The qrels file: written from a map, or any file, and then loaded *)

QrelsInit ==
    /\ \/ /\ producer = "writer"
          /\ orig \in OrigMaps
          /\ file = <<>>
          /\ pc = "write"
       \/ /\ producer = "other"
          /\ orig = None
          /\ file \in Files
          /\ pc = "open"
    /\ written = {}
    /\ pos = 0
    /\ qrels = None
    /\ results = None
    /\ k = None
    /\ rel_threshold = None
    /\ precision_scores = None
    /\ precision_at_k = None
    /\ recall_scores = None
    /\ recall_at_k = None
    /\ ap_scores = None
    /\ MAP = None
    /\ RunnerIdle
    /\ PipelineIdle
    /\ GeneratorIdle

\* a writer puts one judgment into the file
WriteLine ==
    /\ pc = "write"
    /\ \E j \in Judgments(orig) \ written :
          /\ file' = Append(file, FormatLine(j[1], j[2], orig[j[1]][j[2]]))
          /\ written' = written \cup {j}
    /\ UNCHANGED <<qrels, pc, producer, orig, pos, metricVars, runVars, pipeVars, genVars>>

\* the with block of the writer ends
CloseFile ==
    /\ pc = "write"
    /\ written = Judgments(orig)
    /\ pc' = "open"
    /\ UNCHANGED <<qrels, fileVars, metricVars, runVars, pipeVars, genVars>>

\* qrels = {}; with open(qrels_file, 'r') as f:
LoadOpen ==
    /\ pc = "open"
    /\ qrels' = EmptyDict
    /\ pos' = 0
    /\ pc' = "read"
    /\ UNCHANGED <<producer, orig, written, file, metricVars, runVars, pipeVars, genVars>>

\* if len(parts) != 3: continue
LoadSkip ==
    /\ pc = "read"
    /\ pos < Len(file)
    /\ Len(Parts(file[pos + 1])) # 3
    /\ pos' = pos + 1
    /\ UNCHANGED <<qrels, pc, producer, orig, written, file, metricVars, runVars, pipeVars, genVars>>

\* qid, docid, rel = parts; qrels[qid][docid] = int(rel)
LoadStore ==
    /\ pc = "read"
    /\ pos < Len(file)
    /\ LET parts == Parts(file[pos + 1])
       IN  /\ Len(parts) = 3
           /\ IntParses(parts[3])
           /\ qrels' = StoreJudgment(qrels, parts[1], parts[2], IntValue(parts[3]))
    /\ pos' = pos + 1
    /\ UNCHANGED <<pc, producer, orig, written, file, metricVars, runVars, pipeVars, genVars>>

\* int(rel) raises ValueError, which nothing catches: load_qrels ends
LoadRaise ==
    /\ pc = "read"
    /\ pos < Len(file)
    /\ LET parts == Parts(file[pos + 1])
       IN  /\ Len(parts) = 3
           /\ ~IntParses(parts[3])
           /\ qrels' = (IF parts[1] \notin DOMAIN qrels
                        THEN SetItem(qrels, parts[1], EmptyDict) ELSE qrels)
    /\ pc' = "ValueError"
    /\ UNCHANGED <<fileVars, metricVars, runVars, pipeVars, genVars>>

\* the file is at its end: return qrels
LoadReturn ==
    /\ pc = "read"
    /\ pos = Len(file)
    /\ pc' = "loaded"
    /\ UNCHANGED <<qrels, fileVars, metricVars, runVars, pipeVars, genVars>>

QrelsNext ==
    \/ WriteLine
    \/ CloseFile
    \/ LoadOpen
    \/ LoadSkip
    \/ LoadStore
    \/ LoadRaise
    \/ LoadReturn

QrelsSpec == QrelsInit /\ [][QrelsNext]_vars

-----------------------------------------------------------------------------
(* The comparison runner: main of search_recipe.py from the loaded queries  *)
(* and qrels on.  The search engine is outside the program: a call to it    *)
(* returns some ranking cut at k, or raises.  The scoring parameters are     *)
(* k1 in tenths and b in hundredths.                                         *)

Modes == {"tfidf", "bm25"}

\* searcher.set_bm25(k1=0, b=0)
TfidfParams == <<0, 0>>

\* def search_bm25(searcher, queries, top_k=10, k1=1.2, b=0.75, ...)
Bm25Defaults == <<12, 75>>

\* the parameters of a searcher that was just opened
EngineDefaults == <<9, 40>>

\* rel_threshold=1 of compute_precision_at_k and compute_recall_at_k
DefaultRelThreshold == 1

\* print_sample_results(searcher, tfidf_results, queries, n_queries=3)
SampleQueries == 3

\* mutant: the parameters are left as they were
SetBm25_keep(current, params) == current

\* searcher.set_bm25(k1=k1, b=b)
SetBm25(current, params) == params

\* mutant: the first query searched in every turn
QueryAt_first(qs, i) == qs[1]

\* for i, query in enumerate(tqdm(queries)), counted from 1 here
QueryAt(qs, i) == qs[i]

\* mutant: the offset forgotten
Qid_nooffset(i, start) == IntToStr(i)

\* qid = str(i + query_id_start), i counted from 0 in the source
Qid(i, start) == IntToStr((i - 1) + start)

\* mutant: the exception caught and the run carried on
AfterCall_swallow(ok, next) == next

\* no function of search_recipe.py catches an exception: what the engine
\* raises ends search_*, compare_retrieval_algorithms and main
AfterCall(ok, next) == IF ok THEN next ELSE "exception"

\* hits = searcher.search(query, k=top_k): at most k hits, or an exception
Rankings == {<<>>, <<"d1", "d2">>, <<"d2", "d1">>}
SearchOutcomes(kk) ==
    {[ok |-> TRUE, hits |-> Slice(r, kk)] : r \in Rankings}
        \cup {[ok |-> FALSE, hits |-> <<>>]}

\* {'precision@k': ..., 'recall@k': ..., 'MAP': ...}
Metrics(res, qr, kk) ==
    ("precision@k" :> compute_precision_at_k(res, qr, kk, DefaultRelThreshold))
        @@ ("recall@k" :> compute_recall_at_k(res, qr, kk, DefaultRelThreshold))
        @@ ("MAP" :> compute_map(res, qr, kk))

\* mutant: the TF-IDF metrics reported under both modes
ReportEntry_tfidf(comp, mode) == comp["tfidf"]

\* "tfidf": comparison['tfidf'], "bm25": comparison['bm25']
ReportEntry(comp, mode) == comp[mode]

\* print_sample_results fetches a document for each of the first 5 hits of
\* the first n_queries queries, looked up under the ids "1", "2", ...
SampleLookups(res, qs) ==
    {i \in 1..SampleQueries :
        /\ i <= Len(qs)
        /\ IntToStr(i) \in DOMAIN res
        /\ res[IntToStr(i)] # <<>>}

AllQueries == [i \in 1..MaxQueries |-> <<"q">> \o IntToStr(i)]
QueryLists == {SubSeq(AllQueries, 1, n) : n \in 0..MaxQueries}
RunnerQrels == {qr \in QrelsMaps : Cardinality(Judgments(qr)) <= 1}

RunnerInit ==
    /\ queries \in QueryLists
    /\ qrels \in RunnerQrels
    /\ query_id_start \in 1..MaxOffset
    /\ top_k \in 1..MaxTopK
    /\ pc = "open"
    /\ engine_params = None
    /\ results = None
    /\ idx = 0
    /\ calls = <<>>
    /\ passes = {}
    /\ tfidf_results = None
    /\ bm25_results = None
    /\ tfidf_metrics = <<>>
    /\ bm25_metrics = <<>>
    /\ comparison = <<>>
    /\ report = <<>>
    /\ failure = FALSE
    /\ k = None
    /\ rel_threshold = None
    /\ precision_scores = None
    /\ precision_at_k = None
    /\ recall_scores = None
    /\ recall_at_k = None
    /\ ap_scores = None
    /\ MAP = None
    /\ producer = None
    /\ orig = None
    /\ written = {}
    /\ file = <<>>
    /\ pos = 0
    /\ PipelineIdle
    /\ GeneratorIdle

restOfMetricVars == <<k, rel_threshold, precision_scores, precision_at_k,
                      recall_scores, recall_at_k, ap_scores, MAP>>

\* searcher = LuceneSearcher(index_dir)
OpenIndex ==
    /\ pc = "open"
    /\ \E ok \in BOOLEAN :
        /\ pc' = AfterCall(ok, "tfidf")
        /\ failure' = (failure \/ ~ok)
        /\ engine_params' = IF ok THEN EngineDefaults ELSE engine_params
    /\ UNCHANGED <<qrels, results, restOfMetricVars, fileVars, pipeVars,
                   queries, query_id_start, top_k, idx, calls, passes,
                   tfidf_results, bm25_results, tfidf_metrics, bm25_metrics,
                   comparison, report, genVars>>

\* tfidf_results = search_tfidf(...): searcher.set_bm25(k1=0, b=0); results = {}
SetTfidf ==
    /\ pc = "tfidf"
    /\ engine_params' = SetBm25(engine_params, TfidfParams)
    /\ results' = EmptyDict
    /\ idx' = 0
    /\ pc' = "tfidf_search"
    /\ UNCHANGED <<qrels, restOfMetricVars, fileVars, pipeVars,
                   queries, query_id_start, top_k, calls, passes,
                   tfidf_results, bm25_results, tfidf_metrics, bm25_metrics,
                   comparison, report, failure, genVars>>

\* one turn of the loop of search_tfidf: hits = searcher.search(query, k=top_k)
SearchTfidf ==
    /\ pc = "tfidf_search"
    /\ idx < Len(queries)
    /\ \E out \in SearchOutcomes(top_k) :
        /\ calls' = Append(calls, [mode |-> "tfidf",
                                   query |-> QueryAt(queries, idx + 1),
                                   k |-> top_k,
                                   params |-> engine_params,
                                   ok |-> out.ok,
                                   hits |-> out.hits])
        /\ pc' = AfterCall(out.ok, pc)
        /\ failure' = (failure \/ ~out.ok)
        /\ results' = IF out.ok
                      THEN SetItem(results, Qid(idx + 1, query_id_start), out.hits)
                      ELSE results
        /\ idx' = IF out.ok THEN idx + 1 ELSE idx
    /\ UNCHANGED <<qrels, restOfMetricVars, fileVars, pipeVars,
                   queries, query_id_start, top_k, engine_params, passes,
                   tfidf_results, bm25_results, tfidf_metrics, bm25_metrics,
                   comparison, report, genVars>>

\* the loop of search_tfidf is over: return results; tfidf_metrics = {...}
TfidfMetrics ==
    /\ pc = "tfidf_search"
    /\ idx = Len(queries)
    /\ tfidf_results' = results
    /\ passes' = passes \cup {"tfidf"}
    /\ tfidf_metrics' = <<Metrics(results, qrels, top_k)>>
    /\ pc' = "bm25"
    /\ UNCHANGED <<qrels, results, restOfMetricVars, fileVars, pipeVars,
                   queries, query_id_start, top_k, engine_params, idx, calls,
                   bm25_results, bm25_metrics, comparison, report, failure, genVars>>

\* bm25_results = search_bm25(...): searcher.set_bm25(k1=k1, b=b); results = {}
SetBm25Pass ==
    /\ pc = "bm25"
    /\ engine_params' = SetBm25(engine_params, Bm25Defaults)
    /\ results' = EmptyDict
    /\ idx' = 0
    /\ pc' = "bm25_search"
    /\ UNCHANGED <<qrels, restOfMetricVars, fileVars, pipeVars,
                   queries, query_id_start, top_k, calls, passes,
                   tfidf_results, bm25_results, tfidf_metrics, bm25_metrics,
                   comparison, report, failure, genVars>>

\* one turn of the loop of search_bm25: hits = searcher.search(query, k=top_k)
SearchBm25 ==
    /\ pc = "bm25_search"
    /\ idx < Len(queries)
    /\ \E out \in SearchOutcomes(top_k) :
        /\ calls' = Append(calls, [mode |-> "bm25",
                                   query |-> QueryAt(queries, idx + 1),
                                   k |-> top_k,
                                   params |-> engine_params,
                                   ok |-> out.ok,
                                   hits |-> out.hits])
        /\ pc' = AfterCall(out.ok, pc)
        /\ failure' = (failure \/ ~out.ok)
        /\ results' = IF out.ok
                      THEN SetItem(results, Qid(idx + 1, query_id_start), out.hits)
                      ELSE results
        /\ idx' = IF out.ok THEN idx + 1 ELSE idx
    /\ UNCHANGED <<qrels, restOfMetricVars, fileVars, pipeVars,
                   queries, query_id_start, top_k, engine_params, passes,
                   tfidf_results, bm25_results, tfidf_metrics, bm25_metrics,
                   comparison, report, genVars>>

\* the loop of search_bm25 is over: return results; bm25_metrics = {...}
Bm25Metrics ==
    /\ pc = "bm25_search"
    /\ idx = Len(queries)
    /\ bm25_results' = results
    /\ passes' = passes \cup {"bm25"}
    /\ bm25_metrics' = <<Metrics(results, qrels, top_k)>>
    /\ pc' = "samples"
    /\ UNCHANGED <<qrels, results, restOfMetricVars, fileVars, pipeVars,
                   queries, query_id_start, top_k, engine_params, idx, calls,
                   tfidf_results, tfidf_metrics, comparison, report, failure, genVars>>

\* the summary is printed; print_sample_results(searcher, tfidf_results, ...)
\* fetches documents from the engine when a sample query has hits
PrintSamples ==
    /\ pc = "samples"
    /\ \E ok \in BOOLEAN :
        /\ (~ok) => SampleLookups(tfidf_results, queries) # {}
        /\ pc' = AfterCall(ok, "return")
        /\ failure' = (failure \/ ~ok)
    /\ UNCHANGED <<qrels, results, restOfMetricVars, fileVars, pipeVars,
                   queries, query_id_start, top_k, engine_params, idx, calls,
                   passes, tfidf_results, bm25_results, tfidf_metrics,
                   bm25_metrics, comparison, report, genVars>>

\* return {'tfidf': ..., 'bm25': ..., 'tfidf_results': ..., 'bm25_results': ...}
ReturnComparison ==
    /\ pc = "return"
    /\ comparison' = <<("tfidf" :> tfidf_metrics[1])
                        @@ ("bm25" :> bm25_metrics[1])
                        @@ ("tfidf_results" :> tfidf_results)
                        @@ ("bm25_results" :> bm25_results)>>
    /\ pc' = "report"
    /\ UNCHANGED <<qrels, results, restOfMetricVars, fileVars, pipeVars,
                   queries, query_id_start, top_k, engine_params, idx, calls,
                   passes, tfidf_results, bm25_results, tfidf_metrics,
                   bm25_metrics, report, failure, genVars>>

\* output = {...}; json.dump(output, f, indent=2)
WriteReport ==
    /\ pc = "report"
    /\ report' = <<[algorithm_comparison |->
                        [m \in Modes |-> ReportEntry(comparison[1], m)],
                    num_queries |-> Len(queries),
                    num_qrels |-> Cardinality(DOMAIN qrels),
                    evaluation_metric |-> "k=10"]>>
    /\ pc' = "done"
    /\ UNCHANGED <<qrels, results, restOfMetricVars, fileVars, pipeVars,
                   queries, query_id_start, top_k, engine_params, idx, calls,
                   passes, tfidf_results, bm25_results, tfidf_metrics,
                   bm25_metrics, comparison, failure, genVars>>

RunnerNext ==
    \/ OpenIndex
    \/ SetTfidf
    \/ SearchTfidf
    \/ TfidfMetrics
    \/ SetBm25Pass
    \/ SearchBm25
    \/ Bm25Metrics
    \/ PrintSamples
    \/ ReturnComparison
    \/ WriteReport

RunnerSpec == RunnerInit /\ [][RunnerNext]_vars

-----------------------------------------------------------------------------
(* The pipeline command line: main.py.  A step is known by its number; what *)
(* a step's subprocess or its engine calls do is outside the program: an    *)
(* outcome is drawn for each call of a step.                                *)

\* parser.add_argument('--step', type=int, choices=[1, 2, 3, 4, 5, 6, 7])
Choices == {1, 2, 3, 4, 5, 6, 7}

\* run_full_pipeline: steps = [self.step1_preprocess, ..., self.step7_sentiment_analysis]
FullSteps == <<1, 2, 3, 4, 5, 6, 7>>

\* run_step: steps = {1: self.step1_preprocess, ..., 6: self.step6_final_eval}
StepTable == [n \in {1, 2, 3, 4, 5, 6} |-> n]

\* what the work of a step can end in: success, the two errors run_command
\* catches, and an error it does not catch
Outcomes == {"ok", "CalledProcessError", "FileNotFoundError", "OSError"}

\* run_command: True, False on the two errors caught, else the error goes on
RunCommand(outcome) ==
    CASE outcome = "ok" -> "True"
      [] outcome \in {"CalledProcessError", "FileNotFoundError"} -> "False"
      [] OTHER -> "raised"

\* what the step of number n returns
StepReturns(n, outcome, ie, qe) ==
    CASE n = 5 -> IF ~ie THEN "False"
                  ELSE IF outcome = "ok" THEN "True" ELSE "False"
      [] n = 6 -> IF ~qe THEN "False" ELSE RunCommand(outcome)
      [] OTHER -> RunCommand(outcome)

\* the index directory after the step of number n: search_recipe.py builds it
IndexAfter(n, ie) == IF n \in {4, 6} THEN {ie, TRUE} ELSE {ie}

\* the qrels file after the step of number n: prepare_recipe.py writes a
\* placeholder, step 5 opens the file for writing once the index exists
QrelsAfter(n, outcome, ie, qe) ==
    CASE n = 3 -> {qe, TRUE}
      [] n = 5 -> IF ~ie THEN {qe} ELSE IF outcome = "ok" THEN {TRUE} ELSE {qe, TRUE}
      [] OTHER -> {qe}

\* mutant: the loop goes on after a failed step
Stops_never(result) == FALSE

\* if not step(): print(f"\nPipeline stopped at step {i}"); return
Stops(result) == result # "True"

Message(text, n) == [msg |-> text, n |-> n]

CommandLines ==
    [full : BOOLEAN, step : {<<>>} \cup {<<n>> : n \in 0..MaxStepArg}]

PipelineInit ==
    /\ args \in CommandLines
    /\ index_exists \in BOOLEAN
    /\ qrels_exists \in BOOLEAN
    /\ executed = <<>>
    /\ output = <<>>
    /\ pc = "parse_args"
    /\ RunnerIdle
    /\ GeneratorIdle
    /\ qrels = None
    /\ results = None
    /\ k = None
    /\ rel_threshold = None
    /\ precision_scores = None
    /\ precision_at_k = None
    /\ recall_scores = None
    /\ recall_at_k = None
    /\ ap_scores = None
    /\ MAP = None
    /\ producer = None
    /\ orig = None
    /\ written = {}
    /\ file = <<>>
    /\ pos = 0

\* args = parser.parse_args(): a --step outside choices ends the program
ParseArgs ==
    /\ pc = "parse_args"
    /\ pc' = IF args.step # <<>> /\ args.step[1] \notin Choices
             THEN "argparse_error" ELSE "main"
    /\ UNCHANGED <<qrels, metricVars, fileVars, runVars, pipeVars, genVars>>

\* if args.full: pipeline.run_full_pipeline()
MainFull ==
    /\ pc = "main"
    /\ args.full
    /\ pc' = "run_full_pipeline"
    /\ UNCHANGED <<qrels, metricVars, fileVars, runVars, pipeVars, genVars>>

\* elif args.step: pipeline.run_step(args.step)
MainStep ==
    /\ pc = "main"
    /\ ~args.full
    /\ args.step # <<>> /\ args.step[1] # 0
    /\ pc' = "run_step"
    /\ UNCHANGED <<qrels, metricVars, fileVars, runVars, pipeVars, genVars>>

\* else: print("Usage: ...")
MainUsage ==
    /\ pc = "main"
    /\ ~args.full
    /\ ~(args.step # <<>> /\ args.step[1] # 0)
    /\ output' = Append(output, Message("Usage", 0))
    /\ pc' = "exit"
    /\ UNCHANGED <<qrels, metricVars, fileVars, runVars, args, executed,
                   index_exists, qrels_exists, genVars>>

\* one turn of the loop of run_full_pipeline
FullStep ==
    /\ pc = "run_full_pipeline"
    /\ Len(executed) < Len(FullSteps)
    /\ LET i == Len(executed) + 1
           n == FullSteps[i]
       IN  \E outcome \in Outcomes :
             LET result == StepReturns(n, outcome, index_exists, qrels_exists)
             IN  /\ executed' = Append(executed, [step |-> n, result |-> result])
                 /\ index_exists' \in IndexAfter(n, index_exists)
                 /\ qrels_exists' \in QrelsAfter(n, outcome, index_exists, qrels_exists)
                 /\ IF result = "raised"
                    THEN pc' = "crashed" /\ output' = output
                    ELSE IF Stops(result)
                    THEN /\ output' = Append(output, Message("Pipeline stopped at step", i))
                         /\ pc' = "exit"
                    ELSE pc' = pc /\ output' = output
    /\ UNCHANGED <<qrels, metricVars, fileVars, runVars, args, genVars>>

\* the loop is over: self.print_header("PIPELINE COMPLETE")
FullComplete ==
    /\ pc = "run_full_pipeline"
    /\ Len(executed) = Len(FullSteps)
    /\ output' = Append(output, Message("PIPELINE COMPLETE", 0))
    /\ pc' = "exit"
    /\ UNCHANGED <<qrels, metricVars, fileVars, runVars, args, executed,
                   index_exists, qrels_exists, genVars>>

\* run_step: if step_num not in steps: print(f"Invalid step: {step_num}"); return
RunStepInvalid ==
    /\ pc = "run_step"
    /\ args.step[1] \notin DOMAIN StepTable
    /\ output' = Append(output, Message("Invalid step", args.step[1]))
    /\ pc' = "exit"
    /\ UNCHANGED <<qrels, metricVars, fileVars, runVars, args, executed,
                   index_exists, qrels_exists, genVars>>

\* run_step: steps[step_num]()
RunStepCall ==
    /\ pc = "run_step"
    /\ args.step[1] \in DOMAIN StepTable
    /\ LET n == StepTable[args.step[1]]
       IN  \E outcome \in Outcomes :
             LET result == StepReturns(n, outcome, index_exists, qrels_exists)
             IN  /\ executed' = Append(executed, [step |-> n, result |-> result])
                 /\ index_exists' \in IndexAfter(n, index_exists)
                 /\ qrels_exists' \in QrelsAfter(n, outcome, index_exists, qrels_exists)
                 /\ pc' = IF result = "raised" THEN "crashed" ELSE "exit"
    /\ UNCHANGED <<qrels, metricVars, fileVars, runVars, args, output, genVars>>

PipelineNext ==
    \/ ParseArgs
    \/ MainFull
    \/ MainStep
    \/ MainUsage
    \/ FullStep
    \/ FullComplete
    \/ RunStepInvalid
    \/ RunStepCall

PipelineSpec == PipelineInit /\ [][PipelineNext]_vars

-----------------------------------------------------------------------------
(* The queries file, read by the qrels generators (create_qrels.py and step *)
(* 5 of main.py read it the same way) and by the evaluation.  The hits of a *)
(* query are left out: a generator writes the id of the query in front of   *)
(* every judgment of that query.                                            *)

\* compare_retrieval_algorithms(INDEX_DIR, queries, qrels, top_k=10, query_id_start=1)
MainQueryIdStart == 1

RECURSIVE SplitOnLoop(_, _, _, _)
SplitOnLoop(s, sep, done, cur) ==
    IF s = <<>> THEN Append(done, cur)
    ELSE IF Head(s) = sep THEN SplitOnLoop(Tail(s), sep, Append(done, cur), <<>>)
    ELSE SplitOnLoop(Tail(s), sep, done, Append(cur, Head(s)))

\* str.split('\n'): the pieces between the separators, empty pieces kept
SplitOn(s, sep) == SplitOnLoop(s, sep, <<>>, <<>>)

RECURSIVE ReadLinesLoop(_, _, _)
ReadLinesLoop(s, done, cur) ==
    IF s = <<>> THEN (IF cur = <<>> THEN done ELSE Append(done, cur))
    ELSE IF Head(s) = "\n"
         THEN ReadLinesLoop(Tail(s), Append(done, Append(cur, "\n")), <<>>)
         ELSE ReadLinesLoop(Tail(s), done, Append(cur, Head(s)))

\* for line in f: the lines of the file, each with its newline
ReadLines(s) == ReadLinesLoop(s, <<>>, <<>>)

\* queries = open(...).read().strip().split('\n')
GenQueries(text) == SplitOn(Strip(text), "\n")

\* for i, query in enumerate(queries, 1): ... f"{i} ..."
GenId(i) == IntToStr(i)

\* queries = [line.strip() for line in f if line.strip()]
load_queries(text) ==
    LET kept == SelectSeq(ReadLines(text), LAMBDA line : Strip(line) # <<>>)
    IN  [i \in 1..Len(kept) |-> Strip(kept[i])]

QueryChars == {"a", "b", " ", "\n"}
QueryFiles == UNION {[1..n -> QueryChars] : n \in 0..MaxFileLen}

QueryFileInit ==
    /\ query_file \in QueryFiles
    /\ gen_queries = <<>>
    /\ gen_ids = <<>>
    /\ eval_ids = <<>>
    /\ pc = "gen_read"
    /\ RunnerIdle
    /\ PipelineIdle
    /\ qrels = None
    /\ results = None
    /\ k = None
    /\ rel_threshold = None
    /\ precision_scores = None
    /\ precision_at_k = None
    /\ recall_scores = None
    /\ recall_at_k = None
    /\ ap_scores = None
    /\ MAP = None
    /\ producer = None
    /\ orig = None
    /\ written = {}
    /\ file = <<>>
    /\ pos = 0

restOfRunVars == <<query_id_start, top_k, engine_params, idx, calls, passes,
                   tfidf_results, bm25_results, tfidf_metrics, bm25_metrics,
                   comparison, report, failure>>

\* a generator reads the queries file
GenRead ==
    /\ pc = "gen_read"
    /\ gen_queries' = GenQueries(query_file)
    /\ pc' = "gen_loop"
    /\ UNCHANGED <<qrels, metricVars, fileVars, runVars, pipeVars,
                   query_file, gen_ids, eval_ids>>

\* one turn of the loop of a generator: the id i goes with the i-th query
GenWrite ==
    /\ pc = "gen_loop"
    /\ Len(gen_ids) < Len(gen_queries)
    /\ LET i == Len(gen_ids) + 1
       IN  gen_ids' = Append(gen_ids, [id |-> GenId(i), query |-> gen_queries[i]])
    /\ UNCHANGED <<qrels, pc, metricVars, fileVars, runVars, pipeVars,
                   query_file, gen_queries, eval_ids>>

\* the loop of the generator is over and the qrels file is closed
GenClose ==
    /\ pc = "gen_loop"
    /\ Len(gen_ids) = Len(gen_queries)
    /\ pc' = "load_queries"
    /\ UNCHANGED <<qrels, metricVars, fileVars, runVars, pipeVars, genVars>>

\* main of search_recipe.py: queries = load_queries(QUERIES_FILE)
LoadQueries ==
    /\ pc = "load_queries"
    /\ queries' = load_queries(query_file)
    /\ pc' = "search"
    /\ UNCHANGED <<qrels, metricVars, fileVars, restOfRunVars, pipeVars, genVars>>

\* one turn of the loop of search_tfidf: qid = str(i + query_id_start)
AssignQid ==
    /\ pc = "search"
    /\ Len(eval_ids) < Len(queries)
    /\ LET i == Len(eval_ids) + 1
       IN  eval_ids' = Append(eval_ids, [id |-> Qid(i, MainQueryIdStart),
                                         query |-> QueryAt(queries, i)])
    /\ UNCHANGED <<qrels, pc, metricVars, fileVars, runVars, pipeVars,
                   query_file, gen_queries, gen_ids>>

\* the loop of search_tfidf is over
SearchDone ==
    /\ pc = "search"
    /\ Len(eval_ids) = Len(queries)
    /\ pc' = "compared"
    /\ UNCHANGED <<qrels, metricVars, fileVars, runVars, pipeVars, genVars>>

QueryFileNext ==
    \/ GenRead
    \/ GenWrite
    \/ GenClose
    \/ LoadQueries
    \/ AssignQid
    \/ SearchDone

QueryFileSpec == QueryFileInit /\ [][QueryFileNext]_vars

-----------------------------------------------------------------------------
(* What the metric claims speak of, stated on the inputs with sets and      *)
(* counts rather than with the loops of the code                            *)

Evaluated == pc = "evaluated"

\* the queries of the results map that qrels knows
Judged == DOMAIN results \cap DOMAIN qrels

\* the grade of a document for a query of qrels, 0 when it has no judgment
Grade(q, d) == IF d \in DOMAIN qrels[q] THEN qrels[q][d] ELSE 0

\* the ranks of the top k of a hit list
TopRanks(hits) == {i \in 1..Len(hits) : i <= k}

\* the number of the first k hits of q with grade >= the threshold
HitCount(q) ==
    Cardinality({i \in TopRanks(results[q]) : Grade(q, results[q][i]) >= rel_threshold})

\* the number of docIds of qrels[q] with grade >= the threshold
JudgedRelevant(q) ==
    Cardinality({d \in DOMAIN qrels[q] : qrels[q][d] >= rel_threshold})

\* the ranks of the first k hits of q with grade > 0
PositiveRanks(q, hits) == {i \in TopRanks(hits) : Grade(q, hits[i]) > 0}

\* the average precision of a hit list of q with a relevant hit in its top k
AveragePrecision(q, hits) ==
    LET R == PositiveRanks(q, hits)
        AtRank(i) == IF i \in R THEN Rat(Cardinality({j \in R : j <= i}), i)
                     ELSE Zero
    IN  RDivInt(RSum([i \in 1..Len(hits) |-> AtRank(i)]), Cardinality(R))

\* the scores of the queries that satisfy Scored, in the order of the results map
ScoresOf(Scored(_), Score(_)) ==
    LET sel == SelectSeq(Items(results), Scored)
    IN  [i \in 1..Len(sel) |-> Score(sel[i])]

Mean(scores) == RDivInt(RSum(scores), Len(scores))

\* the results map without the query q
Without(res, q) == [x \in DOMAIN res \ {q} |-> res[x]]

\* hits with the hit at rank i moved to the later rank j, the others in order
MoveLater(hits, i, j) ==
    [r \in 1..Len(hits) |->
        IF r < i \/ r > j THEN hits[r]
        ELSE IF r = j THEN hits[i] ELSE hits[r + 1]]

\* the permutations of the ranks 1..n
RankPermutations ==
    [n \in 0..(MaxTotalHits + 1) |->
        {p \in [1..n -> 1..n] : \A a, b \in 1..n : p[a] = p[b] => a = b}]

\* MAP@k after the hit list of q is replaced
MapWith(q, hits) == compute_map([results EXCEPT ![q] = hits], qrels, k)

-----------------------------------------------------------------------------
(* C1: a query of qrels whose top k is empty is scored 0 by Precision@k and *)
(* counted in the mean: the mean is taken over every query of the results   *)
(* map that qrels knows.                                                    *)
C1_EmptyTopKScoredZero ==
    (Evaluated /\ \E q \in Judged : results[q] = <<>>) =>
        precision_at_k =
            Mean(ScoresOf(LAMBDA q : q \in Judged, LAMBDA q : Rat(HitCount(q), k)))

(* C2: a query of qrels with a non-empty hit list is scored (relevant hits  *)
(* among the first k) / k, the configured k also when fewer hits came back, *)
(* a docId without judgment counting as grade 0; Precision@k is the mean of *)
(* these scores.                                                            *)
C2_PrecisionScores ==
    Evaluated =>
        LET expected == ScoresOf(LAMBDA q : q \in Judged /\ results[q] # <<>>,
                                 LAMBDA q : Rat(HitCount(q), k))
        IN  /\ precision_scores = expected
            /\ expected # <<>> => precision_at_k = Mean(expected)

C2_Witness ==
    /\ Evaluated
    /\ Len(precision_scores) = 2
    /\ \E q \in Judged :
          /\ results[q] # <<>>
          /\ Len(results[q]) < k
          /\ HitCount(q) > 0
          /\ \E i \in TopRanks(results[q]) : results[q][i] \notin DOMAIN qrels[q]

(* C3: Recall@k skips a query of qrels whose total_relevant is 0 and scores *)
(* any other as (relevant hits among the first k) / total_relevant, so an   *)
(* empty hit list with total_relevant > 0 scores 0 and is counted;          *)
(* Recall@k is the mean of the scores.                                      *)
C3_RecallScores ==
    Evaluated =>
        LET expected == ScoresOf(LAMBDA q : q \in Judged /\ JudgedRelevant(q) > 0,
                                 LAMBDA q : Rat(HitCount(q), JudgedRelevant(q)))
        IN  /\ recall_scores = expected
            /\ expected # <<>> => recall_at_k = Mean(expected)

C3_Witness ==
    /\ Evaluated
    /\ \E q \in Judged : JudgedRelevant(q) > 0 /\ results[q] = <<>>
    /\ \E q \in Judged : JudgedRelevant(q) = 0
    /\ recall_scores = <<Zero>>

(* C4: MAP@k counts a hit of the first k as relevant exactly when its grade *)
(* is > 0, whatever the threshold of precision and recall, scores a query   *)
(* as the sum of (relevant so far) / rank over its relevant ranks divided   *)
(* by their number, and skips a query without a relevant hit in its top k.  *)
C4_AveragePrecisionScores ==
    Evaluated =>
        LET expected ==
                ScoresOf(LAMBDA q : q \in Judged /\ PositiveRanks(q, results[q]) # {},
                         LAMBDA q : AveragePrecision(q, results[q]))
        IN  /\ ap_scores = expected
            /\ expected # <<>> => MAP = Mean(expected)

C4_Witness ==
    /\ Evaluated
    /\ rel_threshold = 2
    /\ \E q \in Judged :
          /\ Cardinality(PositiveRanks(q, results[q])) = 1
          /\ 1 \notin PositiveRanks(q, results[q])
          /\ HitCount(q) = 0
    /\ \E q \in Judged : results[q] # <<>> /\ PositiveRanks(q, results[q]) = {}
    /\ Len(ap_scores) = 1

(* C5: a query of the results map that qrels does not know is left out of   *)
(* all three averages, not scored 0: every metric is what it is without     *)
(* that query; and a metric without a scored query is 0.                    *)
C5_UnjudgedQueriesExcluded ==
    Evaluated =>
        /\ \A q \in DOMAIN results \ DOMAIN qrels :
              /\ precision_scores =
                     PrecisionScores(Without(results, q), qrels, k, rel_threshold)
              /\ recall_scores =
                     RecallScores(Without(results, q), qrels, k, rel_threshold)
              /\ ap_scores = ApScores(Without(results, q), qrels, k)
        /\ Len(precision_scores) <= Cardinality(Judged)
        /\ Len(recall_scores) <= Cardinality(Judged)
        /\ Len(ap_scores) <= Cardinality(Judged)
        /\ precision_scores = <<>> => precision_at_k = Zero
        /\ recall_scores = <<>> => recall_at_k = Zero
        /\ ap_scores = <<>> => MAP = Zero

C5_Witness ==
    /\ Evaluated
    /\ \E q \in DOMAIN results \ DOMAIN qrels : Len(results[q]) = 2
    /\ Len(precision_scores) = 1
    /\ Len(recall_scores) = 1
    /\ Len(ap_scores) = 1
    /\ precision_at_k # Zero

(* C6: a query whose qrels entry has only grade-0 judgments is out of the   *)
(* Recall@k and MAP@k averages and contributes a score to the Precision@k   *)
(* average, for every results map and every k.                              *)
C6_AllZeroQuery ==
    Evaluated =>
        \A q \in Judged :
            (\A d \in DOMAIN qrels[q] : qrels[q][d] = 0) =>
                LET others == PrecisionScores(Without(results, q), qrels, k,
                                              rel_threshold)
                IN  /\ recall_scores =
                           RecallScores(Without(results, q), qrels, k, rel_threshold)
                    /\ ap_scores = ApScores(Without(results, q), qrels, k)
                    /\ precision_at_k = Mean(Append(others, Zero))

(* C7: for k >= 1 and hit lists without duplicate docIds, Precision@k and   *)
(* Recall@k lie in [0,1] whenever a query was scored.                       *)
C7_PrecisionRecallInUnitInterval ==
    Evaluated =>
        /\ precision_scores # <<>> =>
               RLeq(Zero, precision_at_k) /\ RLeq(precision_at_k, One)
        /\ recall_scores # <<>> =>
               RLeq(Zero, recall_at_k) /\ RLeq(recall_at_k, One)

C7_Witness ==
    /\ Evaluated
    /\ Len(precision_scores) = 2
    /\ Len(recall_scores) = 2
    /\ precision_at_k = One
    /\ recall_at_k = One

\* MAP@k is unchanged by a permutation of a hit list that moves only hits of
\* grade 0, among the ranks they occupy
MapIrrelevantOrderInvariant ==
    \A q \in Judged :
        \A p \in RankPermutations[Len(results[q])] :
            (\A r \in 1..Len(results[q]) :
                p[r] # r => /\ Grade(q, results[q][r]) = 0
                            /\ Grade(q, results[q][p[r]]) = 0)
            => MapWith(q, [r \in 1..Len(results[q]) |-> results[q][p[r]]]) = MAP

(* C8 as stated: MAP@k is unchanged by a permutation that only exchanges    *)
(* hits of grade 0, and strictly decreases whenever a hit of grade > 0 is   *)
(* moved to a later rank.                                                   *)
C8_Original ==
    Evaluated =>
        /\ MapIrrelevantOrderInvariant
        /\ \A q \in Judged :
               \A i, j \in 1..Len(results[q]) :
                   (i < j /\ Grade(q, results[q][i]) > 0) =>
                       RLess(MapWith(q, MoveLater(results[q], i, j)), MAP)

(* C8 amended: MAP@k is unchanged by a permutation that only exchanges hits *)
(* of grade 0; when a hit of grade > 0 is moved to a later rank within the  *)
(* first k, MAP@k strictly decreases if it passes a hit of grade 0 and is   *)
(* unchanged if every hit it passes has grade > 0.                          *)
C8_RelevantMovedLater ==
    Evaluated =>
        /\ MapIrrelevantOrderInvariant
        /\ \A q \in Judged :
               \A i, j \in TopRanks(results[q]) :
                   (i < j /\ Grade(q, results[q][i]) > 0) =>
                       LET moved == MapWith(q, MoveLater(results[q], i, j))
                       IN  IF \E r \in (i + 1)..j : Grade(q, results[q][r]) <= 0
                           THEN RLess(moved, MAP)
                           ELSE moved = MAP

C8_Witness ==
    /\ Evaluated
    /\ Len(ap_scores) = 2
    /\ \E q \in Judged :
          /\ Len(results[q]) = 2
          /\ k >= 2
          /\ Grade(q, results[q][1]) > 0
          /\ Grade(q, results[q][2]) = 0
          /\ RLess(MapWith(q, MoveLater(results[q], 1, 2)), MAP)

(* C17: for qrels {1: {d1: 2, d2: 1, d3: 0}}, the hit list d1, d3, d2 of     *)
(* query 1, k = 3 and threshold 1, Precision@3 is 2/3, Recall@3 is 1 and    *)
(* MAP@3 is 5/6.                                                            *)
C17_Example ==
    (/\ Evaluated
     /\ qrels = (<<"1">> :> (("d1" :> 2) @@ ("d2" :> 1) @@ ("d3" :> 0)))
     /\ results = (<<"1">> :> <<"d1", "d3", "d2">>)
     /\ k = 3
     /\ rel_threshold = 1)
        => (/\ precision_at_k = <<2, 3>>
            /\ recall_at_k = <<1, 1>>
            /\ MAP = <<5, 6>>)

C17_Witness ==
    /\ Evaluated
    /\ DOMAIN qrels = {<<"1">>}
    /\ qrels[<<"1">>] = (("d1" :> 2) @@ ("d2" :> 1) @@ ("d3" :> 0))
    /\ results = (<<"1">> :> <<"d1", "d3", "d2">>)
    /\ k = 3
    /\ rel_threshold = 1
    /\ Len(recall_scores) = 1

\* the results map with every hit list cut after rank k
FirstK(res) ==
    [q \in DOMAIN res |->
        [i \in {r \in 1..Len(res[q]) : r <= k} |-> res[q][i]]]

(* C22: Precision@k, Recall@k and MAP@k are those of the results map with   *)
(* every hit list cut after rank k: two results maps that agree on the      *)
(* first k hits of every query have the same three values, whatever hits    *)
(* follow.                                                                  *)
C22_OnlyFirstK ==
    Evaluated =>
        /\ precision_at_k = compute_precision_at_k(FirstK(results), qrels, k, rel_threshold)
        /\ recall_at_k = compute_recall_at_k(FirstK(results), qrels, k, rel_threshold)
        /\ MAP = compute_map(FirstK(results), qrels, k)

C22_Witness ==
    /\ Evaluated
    /\ k = 1
    /\ \E q \in Judged :
        /\ Len(results[q]) = 3
        /\ Grade(q, results[q][1]) = 0
        /\ Grade(q, results[q][2]) > 0
    /\ MAP = Zero

-----------------------------------------------------------------------------
(* What the qrels file claims speak of *)

\* a line that is a judgment: three tokens, the third an integer
WellFormed(line) == Len(Parts(line)) = 3 /\ IntParses(Parts(line)[3])

(* C9: a qrels map written as lines "<queryId> <docId> <relevanceGrade>"    *)
(* and loaded with load_qrels comes back identical.                         *)
C9_RoundTrip == (pc = "loaded" /\ producer = "writer") => qrels = orig

C9_Witness ==
    /\ pc = "loaded"
    /\ producer = "writer"
    /\ \E q \in DOMAIN orig : DOMAIN orig[q] = FileDocids
    /\ \E q \in DOMAIN orig : \E d \in DOMAIN orig[q] : orig[q][d] = MaxGrade
    /\ qrels = orig

(* C10: load_qrels never aborts on a malformed line: a line with another    *)
(* token count or with a relevance token that is no integer is skipped, and *)
(* every well-formed line of the file is in the returned map.               *)
C10_LoadNeverAborts ==
    /\ pc # "ValueError"
    /\ pc = "loaded" =>
          \A i \in 1..Len(file) :
              WellFormed(file[i]) =>
                  LET parts == Parts(file[i])
                  IN  /\ parts[1] \in DOMAIN qrels
                      /\ parts[2] \in DOMAIN qrels[parts[1]]

(* C18: every relevance grade of a map returned by load_qrels is a           *)
(* non-negative integer, whatever the file holds.                            *)
C18_GradesNonNegative ==
    pc = "loaded" =>
        \A q \in DOMAIN qrels : \A d \in DOMAIN qrels[q] : qrels[q][d] >= 0

-----------------------------------------------------------------------------
(* What the runner claims speak of *)

\* the search calls of one pass, in the order they were issued
CallsOf(m) == SelectSeq(calls, LAMBDA c : c.mode = m)

\* the results map a finished pass returned
ResultsOf(m) == IF m = "tfidf" THEN tfidf_results ELSE bm25_results

(* C11: once a call to the engine has failed (opening the index, a search  *)
(* of either pass), the comparison returns nothing and no report is        *)
(* written, whatever had been computed before the failure.                 *)
C11_FailureLeavesNoReport == failure => (comparison = <<>> /\ report = <<>>)

C11_Witness ==
    /\ failure
    /\ \E i \in 1..Len(calls) : calls[i].mode = "bm25" /\ ~calls[i].ok
    /\ "tfidf" \in passes
    /\ tfidf_metrics # <<>>
    /\ pc = "exception"

(* C12: when the loaded query list is empty the run writes no report.      *)
C12_EmptyQuerySetFatal == (pc = "done" /\ queries = <<>>) => report = <<>>

(* C13: every search call of the TF-IDF pass is issued under k1=0, b=0 and *)
(* every search call of the BM25 pass under k1=1.2, b=0.75; the parameters *)
(* stay so while a pass is searching; and no TF-IDF call follows a BM25     *)
(* call, the first BM25 call coming after the TF-IDF pass has returned.     *)
C13_PassParameters ==
    /\ \A i \in 1..Len(calls) :
        /\ calls[i].mode = "tfidf" => calls[i].params = <<0, 0>>
        /\ calls[i].mode = "bm25" =>
            /\ calls[i].params = <<12, 75>>
            /\ "tfidf" \in passes
            /\ \A j \in 1..Len(calls) : calls[j].mode = "tfidf" => j < i
    /\ pc = "tfidf_search" => engine_params = <<0, 0>>
    /\ pc = "bm25_search" => engine_params = <<12, 75>>

C13_Witness ==
    /\ "bm25" \in passes
    /\ Len(CallsOf("tfidf")) = 2
    /\ Len(CallsOf("bm25")) = 2

(* C14: the results map a pass returned for n queries and offset s has      *)
(* exactly the decimal numerals of s..s+n-1 as keys, and under the numeral  *)
(* of s+i-1 the hit list the engine returned to the pass for the i-th query. *)
C14_ResultsKeys ==
    \A m \in passes :
        /\ \A q \in DOMAIN ResultsOf(m) :
            /\ IntParses(q)
            /\ q # <<>> /\ \A j \in 1..Len(q) : IsDigit(q[j])
            /\ Len(q) > 1 => q[1] # "0"
        /\ {IntValue(q) : q \in DOMAIN ResultsOf(m)}
              = query_id_start..(query_id_start + Len(queries) - 1)
        /\ \A q \in DOMAIN ResultsOf(m) :
            LET i == IntValue(q) - query_id_start + 1
            IN  /\ CallsOf(m)[i].query = queries[i]
                /\ ResultsOf(m)[q] = CallsOf(m)[i].hits

C14_Witness ==
    /\ "bm25" \in passes
    /\ query_id_start = 2
    /\ DOMAIN bm25_results = {<<"2">>, <<"3">>}
    /\ bm25_results[<<"2">>] = <<"d2", "d1">>
    /\ bm25_results[<<"3">>] = <<"d1", "d2">>

(* C15: the search calls of a pass are one per query, in the order of the   *)
(* query list, each with k = top_k; none is issued twice, and a call that   *)
(* failed is the last call of the run.                                      *)
C15_OneSearchPerQuery ==
    /\ \A m \in Modes :
        /\ Len(CallsOf(m)) <= Len(queries)
        /\ m \in passes => Len(CallsOf(m)) = Len(queries)
        /\ \A i \in 1..Len(CallsOf(m)) :
            /\ CallsOf(m)[i].query = queries[i]
            /\ CallsOf(m)[i].k = top_k
    /\ \A i \in 1..Len(calls) : ~calls[i].ok => i = Len(calls)

C15_Witness ==
    /\ pc = "done"
    /\ Len(queries) = 2
    /\ Len(calls) = 4

(* C16: the report of a finished comparison has exactly the entries tfidf   *)
(* and bm25, and each entry holds the three metrics of that mode's own       *)
(* results map under the shared qrels and k = top_k.                         *)
C16_ReportEntries ==
    report # <<>> =>
        /\ DOMAIN report[1].algorithm_comparison = {"tfidf", "bm25"}
        /\ \A m \in Modes :
            report[1].algorithm_comparison[m] = Metrics(ResultsOf(m), qrels, top_k)

C16_Witness ==
    /\ report # <<>>
    /\ report[1].algorithm_comparison["tfidf"]["MAP"] = <<1, 1>>
    /\ report[1].algorithm_comparison["bm25"]["MAP"] = <<1, 2>>

-----------------------------------------------------------------------------
(* What the pipeline claims speak of *)

Announced(text) == \E j \in 1..Len(output) : output[j].msg = text

(* C19: run_full_pipeline calls the steps 1 to 7 in that order, calls a     *)
(* step only after every earlier step returned True, and announces the      *)
(* completion only after all seven returned True.                           *)
C19_FullPipelineOrder ==
    args.full =>
        /\ Len(executed) <= 7
        /\ \A i \in 1..Len(executed) :
            /\ executed[i].step = i
            /\ i < Len(executed) => executed[i].result = "True"
        /\ Announced("PIPELINE COMPLETE") =>
            /\ Len(executed) = 7
            /\ \A i \in 1..7 : executed[i].result = "True"

C19_Witness ==
    /\ args.full
    /\ pc = "exit"
    /\ Len(executed) = 5
    /\ executed[5].result = "False"
    /\ ~Announced("PIPELINE COMPLETE")

(* C20: when --step n was accepted by the command line and run_step has     *)
(* returned, the step of number n was called and n was not reported as      *)
(* invalid.                                                                 *)
C20_AcceptedStepRuns ==
    (/\ pc = "exit"
     /\ ~args.full
     /\ args.step # <<>>)
        => (/\ Len(executed) = 1
            /\ executed[1].step = args.step[1]
            /\ ~Announced("Invalid step"))

-----------------------------------------------------------------------------
(* What the queries file claim speaks of *)

(* C21: for every queries file, each query of the evaluation has, under the *)
(* id the evaluation gives it, the same query text in the generators: the   *)
(* judgments a generator writes under an id are those of the query the      *)
(* evaluation searches under that id, blank lines in the file or not.       *)
C21_SameQueryIds ==
    pc = "compared" =>
        \A i \in 1..Len(eval_ids) :
            \E j \in 1..Len(gen_ids) :
                /\ gen_ids[j].id = eval_ids[i].id
                /\ Strip(gen_ids[j].query) = eval_ids[i].query

=============================================================================
